---- MODULE Spec2Model ----
(***************************************************************************)
(* Block-ordering and sentence-materialization engine of skim              *)
(* (backend/app.py, backend/database.py), modelled as a state machine over *)
(* the SQLite tables documents, pages, blocks, words and sentences.        *)
(*                                                                         *)
(* pages, blocks and words are sequences of rows: the row at index i is    *)
(* the row whose AUTOINCREMENT id is i (no handler deletes from them).     *)
(* sentences is a set of rows (its id column is never read).               *)
(* request is the request being answered and response its answer: the HTTP *)
(* status of an endpoint (0 for a direct function call) and, for           *)
(* sync_sentences, the boolean it returns.                                 *)
(* A text is a sequence of one-character strings.                          *)
(*                                                                         *)
(* The tables hold the committed state of the database file. inflight[c]   *)
(* is the handler running on connection c between two of its statements:   *)
(* the statements it runs next (pc), the handler (op) and its arguments    *)
(* (args), the number its SELECT returned (read) and the rows its SELECT   *)
(* returned (rows). The handlers of Spec, SpecLedger and SpecFault run one *)
(* at a time, from their first statement to their last, and leave every    *)
(* connection idle; SpecRace and SpecSteps interleave the statements of    *)
(* two handlers.                                                           *)
(*                                                                         *)
(* sqlite_sequence is the largest id the AUTOINCREMENT column of documents *)
(* has handed out, and uploads holds the ids of the documents whose file   *)
(* is in the upload folder.                                                *)
(***************************************************************************)
EXTENDS Integers, Sequences, FiniteSets, TLC

VARIABLES documents, pages, blocks, words, sentences, request, response,
          inflight, sqlite_sequence, uploads

vars == <<documents, pages, blocks, words, sentences, request, response,
          inflight, sqlite_sequence, uploads>>

(***************************************************************************)
(* Values                                                                  *)
(***************************************************************************)

\* SQL NULL of the nullable INTEGER/TEXT columns (user_order, sentence_number,
\* rhetorical_function, relevance). Every stored number is >= 0.
NULL == -1

\* Largest user_order the model lets activate_block assign under Spec.
MaxOrder == 2

\* Largest user_order the model lets activate_block assign under SpecLedger.
LedgerMaxOrder == 3

\* str.isupper() on one character, over the characters the model uses.
Upper == {"A", "B", "C", "D", "E", "F", "G", "H", "I", "J", "K", "L", "M",
          "N", "O", "P", "Q", "R", "S", "T", "U", "V", "W", "X", "Y", "Z"}

common_caps ==
  { <<"I">>, <<"M","r">>, <<"M","r","s">>, <<"M","s">>, <<"D","r">>,
    <<"P","r","o","f">>, <<"S","t">>, <<"A","v","e">>, <<"B","l","v","d">>,
    <<"R","d">>, <<"L","n">>,
    <<"J","a","n">>, <<"F","e","b">>, <<"M","a","r">>, <<"A","p","r">>,
    <<"M","a","y">>, <<"J","u","n">>, <<"J","u","l">>, <<"A","u","g">>,
    <<"S","e","p">>, <<"O","c","t">>, <<"N","o","v">>, <<"D","e","c">>,
    <<"M","o","n">>, <<"T","u","e">>, <<"W","e","d">>, <<"T","h","u">>,
    <<"F","r","i">>, <<"S","a","t">>, <<"S","u","n">> }

(***************************************************************************)
(* Ingestion: upload_file                                                  *)
(***************************************************************************)

\* A starter test that accepts a word only after sentence-ending punctuation.
is_sentence_starter_after_punctuation(word_text, last_word_text) ==
  /\ word_text # <<>>
  /\ word_text[1] \in Upper
  /\ word_text \notin common_caps
  /\ last_word_text # <<>>
  /\ last_word_text[Len(last_word_text)] \in {".", "!", "?"}

\* The starter test of one word, given the text of the word before it in the
\* same block ("" at the start of the block).
is_sentence_starter(word_text, last_word_text) ==
  /\ word_text # <<>>
  /\ word_text[1] \in Upper
  /\ word_text \notin common_caps
  /\ \/ last_word_text = <<>>
     \/ last_word_text[Len(last_word_text)] \in {".", "!", "?"}

\* The flags of the words of one block, in extraction order.
word_positions(ws) ==
  [i \in 1..Len(ws) |->
     is_sentence_starter(ws[i], IF i = 1 THEN <<>> ELSE ws[i-1])]

RECURSIVE Flatten(_)
Flatten(ss) == IF ss = <<>> THEN <<>> ELSE Head(ss) \o Flatten(Tail(ss))

RECURSIVE BlocksBefore(_, _)
\* Number of blocks on the pages before page k of a document.
BlocksBefore(pdf, k) ==
  IF k <= 1 THEN 0 ELSE Len(pdf[k-1]) + BlocksBefore(pdf, k-1)

\* A PDF as the extraction library returns it: pages, each a sequence of
\* blocks, each the sequence of the texts of its words.
PdfA == << << << <<"A">>, <<"b",".">> >> >>,
           << << <<"c">> >> >> >>
PdfB == << << << <<"E">> >> >> >>
PdfC == << << << <<"A">> >>, << <<"I">> >> >>,
           << << <<"C">> >> >> >>

PdfD == << << << <<"A",".">>, <<"B">> >> >> >>
PdfE == << << << <<"A">> >>, << <<"c">> >> >> >>

\* The files uploaded over a run of Spec, in this order: document 1 has
\* block 1 of page 1 (words "A", "b.") and block 1 of page 2 (word "c").
Uploads == <<PdfA>>

\* The files uploaded over a run of SpecLedger: document 1 has blocks 1 and 2
\* of page 1 and block 1 of page 2, document 2 has block 1 of page 1.
LedgerUploads == <<PdfC, PdfB>>

\* The files uploaded over a run of SpecFault: document 1 has one block, with
\* the words "A." and "B" (two sentences).
FaultUploads == <<PdfD>>

\* The blocks of the files uploaded over a run of SpecClassify: an uppercase,
\* a lowercase and an excepted first word, a word after a word without text,
\* and a word after a word that ends and does not end a sentence.
ClassifyBlocks ==
  { << <<"A">> >>, << <<"a">> >>, << <<"I">> >>,
    << <<>>, <<"B">> >>,
    << <<"a",".">>, <<"B">> >>,
    << <<"a">>, <<"B">> >>,
    << <<"A","!">>, <<"I">> >>,
    << <<"a","?">>, <<"b">> >> }

\* The files of SpecClassify: one page of one or two of these blocks.
ClassifyPdfs ==
  { << <<b>> >> : b \in ClassifyBlocks }
    \cup { << <<b[1], b[2]>> >> : b \in ClassifyBlocks \X ClassifyBlocks }

\* The files uploaded over a run of SpecClassify: any two of them, in order.
ClassifyUploads == { <<f[1], f[2]>> : f \in ClassifyPdfs \X ClassifyPdfs }

save_page(doc_id, pdf) ==
  [k \in 1..Len(pdf) |-> [document_id |-> doc_id, page_number |-> k]]

save_block(doc_id, pdf, page0) ==
  Flatten([k \in 1..Len(pdf) |->
     [j \in 1..Len(pdf[k]) |->
        [document_id |-> doc_id, page_id |-> page0 + k,
         block_number |-> j, user_order |-> NULL]]])

\* A save_words whose classifier keeps the last word of the block before as
\* the previous word of the first word of a block.
save_words_lookback(doc_id, pdf, page0, block0) ==
  Flatten([k \in 1..Len(pdf) |->
     Flatten([j \in 1..Len(pdf[k]) |->
        [i \in 1..Len(pdf[k][j]) |->
           [document_id |-> doc_id, page_id |-> page0 + k,
            block_id |-> block0 + BlocksBefore(pdf, k) + j,
            word_number |-> i, text |-> pdf[k][j][i],
            is_sentence_starter |->
              is_sentence_starter(pdf[k][j][i],
                IF i > 1 THEN pdf[k][j][i-1]
                ELSE IF j > 1 THEN pdf[k][j-1][Len(pdf[k][j-1])]
                ELSE <<>>),
            sentence_number |-> NULL]]])])

\* A save_words that numbers the words of a block from 0.
save_words_from_zero(doc_id, pdf, page0, block0) ==
  Flatten([k \in 1..Len(pdf) |->
     Flatten([j \in 1..Len(pdf[k]) |->
        [i \in 1..Len(pdf[k][j]) |->
           [document_id |-> doc_id, page_id |-> page0 + k,
            block_id |-> block0 + BlocksBefore(pdf, k) + j,
            word_number |-> i - 1, text |-> pdf[k][j][i],
            is_sentence_starter |-> word_positions(pdf[k][j])[i],
            sentence_number |-> NULL]]])])

save_words(doc_id, pdf, page0, block0) ==
  Flatten([k \in 1..Len(pdf) |->
     Flatten([j \in 1..Len(pdf[k]) |->
        [i \in 1..Len(pdf[k][j]) |->
           [document_id |-> doc_id, page_id |-> page0 + k,
            block_id |-> block0 + BlocksBefore(pdf, k) + j,
            word_number |-> i, text |-> pdf[k][j][i],
            is_sentence_starter |-> word_positions(pdf[k][j])[i],
            sentence_number |-> NULL]]])])

upload_file(files) ==
  /\ sqlite_sequence < Len(files)
  /\ LET doc_id == sqlite_sequence + 1
         pdf == files[doc_id]
     IN /\ uploads' = uploads \cup {doc_id}
        /\ sqlite_sequence' = doc_id
        /\ documents' = documents \cup {doc_id}
        /\ pages' = pages \o save_page(doc_id, pdf)
        /\ blocks' = blocks \o save_block(doc_id, pdf, Len(pages))
        /\ words' = words \o save_words(doc_id, pdf, Len(pages), Len(blocks))
        /\ sentences' = sentences
        /\ request' = [op |-> "upload_file", args |-> <<doc_id>>]
        /\ response' = [status |-> 200, result |-> TRUE]
        /\ UNCHANGED inflight

(***************************************************************************)
(* Block activation ledger: activate_block                                 *)
(***************************************************************************)

\* The ids of the pages named by (document_id, page_number).
PageIds(document_id, page_number) ==
  {p \in 1..Len(pages) : /\ pages[p].document_id = document_id
                         /\ pages[p].page_number = page_number}

\* The ids of the blocks the request's WHERE clause selects.
TargetBlocks(bs, document_id, page_number, block_number) ==
  {b \in 1..Len(bs) : /\ bs[b].document_id = document_id
                      /\ bs[b].page_id \in PageIds(document_id, page_number)
                      /\ bs[b].block_number = block_number}

Max(S) == CHOOSE x \in S : \A y \in S : y <= x

\* next_order without the "+ 1".
next_order_max(bs, document_id) ==
  LET orders == {bs[b].user_order : b \in {c \in 1..Len(bs) :
                     /\ bs[c].document_id = document_id
                     /\ bs[c].user_order # NULL}}
  IN IF orders = {} THEN 1 ELSE Max(orders)

\* SELECT MAX(user_order) ... ; (result['max_order'] or 0) + 1
next_order(bs, document_id) ==
  LET orders == {bs[b].user_order : b \in {c \in 1..Len(bs) :
                     /\ bs[c].document_id = document_id
                     /\ bs[c].user_order # NULL}}
  IN (IF orders = {} THEN 0 ELSE Max(orders)) + 1

\* activate with the page_id condition of the UPDATE left out.
activate_any_page(bs, document_id, page_number, block_number) ==
  LET n == next_order(bs, document_id)
  IN [b \in 1..Len(bs) |->
        IF bs[b].document_id = document_id /\ bs[b].block_number = block_number
        THEN [bs[b] EXCEPT !.user_order = n] ELSE bs[b]]

\* The is_activating branch: the table after the UPDATE.
activate(bs, document_id, page_number, block_number) ==
  LET target == TargetBlocks(bs, document_id, page_number, block_number)
      n == next_order(bs, document_id)
  IN [b \in 1..Len(bs) |->
        IF b \in target THEN [bs[b] EXCEPT !.user_order = n] ELSE bs[b]]

\* compact with the "user_order > ?" condition left out.
compact_all(bs, document_id, deactivated_order) ==
  [b \in 1..Len(bs) |->
     IF bs[b].document_id = document_id /\ bs[b].user_order # NULL
     THEN [bs[b] EXCEPT !.user_order = @ - 1]
     ELSE bs[b]]

\* The decrement of the orders above the deactivated one.
compact(bs, document_id, deactivated_order) ==
  [b \in 1..Len(bs) |->
     IF /\ bs[b].document_id = document_id
        /\ bs[b].user_order # NULL
        /\ bs[b].user_order > deactivated_order
     THEN [bs[b] EXCEPT !.user_order = @ - 1]
     ELSE bs[b]]

\* deactivate with the "if result and result['user_order']" test left out
\* (a NULL order read as 0).
deactivate_unchecked(bs, document_id, page_number, block_number) ==
  LET target == TargetBlocks(bs, document_id, page_number, block_number)
  IN IF target = {} THEN bs
     ELSE LET result == bs[CHOOSE b \in target : \A c \in target : b <= c]
              d == IF result.user_order = NULL THEN 0 ELSE result.user_order
          IN compact(
               [b \in 1..Len(bs) |->
                  IF b \in target
                  THEN [bs[b] EXCEPT !.user_order = NULL] ELSE bs[b]],
               document_id, d)

\* The deactivation branch: the table after its UPDATEs.
deactivate(bs, document_id, page_number, block_number) ==
  LET target == TargetBlocks(bs, document_id, page_number, block_number)
  IN IF target = {} THEN bs
     ELSE LET result == bs[CHOOSE b \in target : \A c \in target : b <= c]
          IN IF result.user_order = NULL \/ result.user_order = 0 THEN bs
             ELSE compact(
                    [b \in 1..Len(bs) |->
                       IF b \in target
                       THEN [bs[b] EXCEPT !.user_order = NULL] ELSE bs[b]],
                    document_id, result.user_order)

activate_block(document_id, page_number, block_number, is_activating) ==
  /\ blocks' = IF is_activating
               THEN activate(blocks, document_id, page_number, block_number)
               ELSE deactivate(blocks, document_id, page_number, block_number)
  /\ request' = [op |-> "activate_block",
                 args |-> <<document_id, page_number, block_number,
                            IF is_activating THEN 1 ELSE 0>>]
  /\ response' = [status |-> 200, result |-> TRUE]
  /\ UNCHANGED <<sqlite_sequence, uploads, documents, pages, words, sentences, inflight>>

(***************************************************************************)
(* Sentence materializer: sync_sentences                                   *)
(***************************************************************************)

\* ORDER BY b.user_order, w.word_number over a set of word ids (rows that
\* agree on both keys come in rowid order).
Before(bs, ws, i, j) ==
  LET oi == bs[ws[i].block_id].user_order
      oj == bs[ws[j].block_id].user_order
  IN \/ oi < oj
     \/ oi = oj /\ ws[i].word_number < ws[j].word_number
     \/ oi = oj /\ ws[i].word_number = ws[j].word_number /\ i < j

OrderRows(bs, ws, ids) ==
  [k \in 1..Cardinality(ids) |->
     CHOOSE i \in ids : Cardinality({j \in ids : Before(bs, ws, j, i)}) = k - 1]

\* The first SELECT of sync_sentences: blocks JOIN pages JOIN words.
sync_rows(bs, ws, document_id) ==
  OrderRows(bs, ws,
    {w \in 1..Len(ws) :
       /\ ws[w].block_id \in 1..Len(bs)
       /\ bs[ws[w].block_id].document_id = document_id
       /\ bs[ws[w].block_id].user_order # NULL
       /\ bs[ws[w].block_id].page_id \in 1..Len(pages)
       /\ ws[w].page_id = bs[ws[w].block_id].page_id})

\* The second SELECT of sync_sentences: words JOIN blocks.
sync_words(bs, ws, document_id) ==
  OrderRows(bs, ws,
    {w \in 1..Len(ws) :
       /\ ws[w].document_id = document_id
       /\ ws[w].block_id \in 1..Len(bs)
       /\ bs[ws[w].block_id].user_order # NULL})

RECURSIVE join(_)
\* ' '.join(current_sentence)
join(texts) ==
  IF texts = <<>> THEN <<>>
  ELSE IF Len(texts) = 1 THEN texts[1]
  ELSE texts[1] \o <<" ">> \o join(Tail(texts))

\* INSERT INTO sentences (document_id, page_id, block_id, sentence_number, text)
sentence_row(document_id, st) ==
  [document_id |-> document_id, page_id |-> st.current_page_id,
   block_id |-> st.current_block_id,
   sentence_number |-> st.current_sentence_number,
   text |-> join(st.current_sentence),
   rhetorical_function |-> NULL, relevance |-> NULL]

\* process_word with the split test reading row['sentence_number'] in place of
\* row['is_sentence_starter'].
process_word_by_number(bs, ws, document_id, st, w) ==
  LET flushed ==
        IF ws[w].sentence_number # NULL /\ st.current_sentence # <<>>
        THEN [st EXCEPT !.inserted = @ \cup {sentence_row(document_id, st)},
                        !.current_sentence_number = @ + 1,
                        !.current_sentence = <<>>]
        ELSE st
  IN [flushed EXCEPT !.current_sentence = Append(@, ws[w].text),
                     !.current_block_id = ws[w].block_id,
                     !.current_page_id = bs[ws[w].block_id].page_id]

\* process_word with current_block_id and current_page_id set by the first
\* word of a sentence only.
process_word_first_block(bs, ws, document_id, st, w) ==
  LET flushed ==
        IF ws[w].is_sentence_starter /\ st.current_sentence # <<>>
        THEN [st EXCEPT !.inserted = @ \cup {sentence_row(document_id, st)},
                        !.current_sentence_number = @ + 1,
                        !.current_sentence = <<>>]
        ELSE st
  IN IF flushed.current_sentence = <<>>
     THEN [flushed EXCEPT !.current_sentence = Append(@, ws[w].text),
                          !.current_block_id = ws[w].block_id,
                          !.current_page_id = bs[ws[w].block_id].page_id]
     ELSE [flushed EXCEPT !.current_sentence = Append(@, ws[w].text)]

\* process_word with the split test "if current_sentence", whatever the flag
\* of the word.
process_word_split_always(bs, ws, document_id, st, w) ==
  LET flushed ==
        IF st.current_sentence # <<>>
        THEN [st EXCEPT !.inserted = @ \cup {sentence_row(document_id, st)},
                        !.current_sentence_number = @ + 1,
                        !.current_sentence = <<>>]
        ELSE st
  IN [flushed EXCEPT !.current_sentence = Append(@, ws[w].text),
                     !.current_block_id = ws[w].block_id,
                     !.current_page_id = bs[ws[w].block_id].page_id]

\* One iteration of the loop over rows.
process_word(bs, ws, document_id, st, w) ==
  LET flushed ==
        IF ws[w].is_sentence_starter /\ st.current_sentence # <<>>
        THEN [st EXCEPT !.inserted = @ \cup {sentence_row(document_id, st)},
                        !.current_sentence_number = @ + 1,
                        !.current_sentence = <<>>]
        ELSE st
  IN [flushed EXCEPT !.current_sentence = Append(@, ws[w].text),
                     !.current_block_id = ws[w].block_id,
                     !.current_page_id = bs[ws[w].block_id].page_id]

RECURSIVE process_words(_, _, _, _, _, _)
process_words(bs, ws, document_id, rows, i, st) ==
  IF i > Len(rows) THEN st
  ELSE process_words(bs, ws, document_id, rows, i + 1,
                     process_word(bs, ws, document_id, st, rows[i]))

\* build_sentences without the flush after the loop.
build_sentences_no_last_flush(bs, ws, document_id, rows) ==
  LET st0 == [current_sentence |-> <<>>, current_sentence_number |-> 1,
              current_block_id |-> NULL, current_page_id |-> NULL,
              inserted |-> {}]
  IN process_words(bs, ws, document_id, rows, 1, st0).inserted

\* The sentences sync_sentences inserts for the rows.
build_sentences(bs, ws, document_id, rows) ==
  LET st0 == [current_sentence |-> <<>>, current_sentence_number |-> 1,
              current_block_id |-> NULL, current_page_id |-> NULL,
              inserted |-> {}]
      st == process_words(bs, ws, document_id, rows, 1, st0)
  IN IF st.current_sentence # <<>>
     THEN st.inserted \cup {sentence_row(document_id, st)}
     ELSE st.inserted

\* Number of starters among the first k rows.
StartersUpTo(ws, rows, k) ==
  Cardinality({i \in 1..k : ws[rows[i]].is_sentence_starter})

\* renumber_words with the starters numbered in the order of their ids, not
\* ORDER BY b.user_order, w.word_number.
renumber_words_by_id(bs, ws, document_id) ==
  LET rows == sync_words(bs, ws, document_id)
      listed == {rows[k] : k \in 1..Len(rows)}
  IN [w \in 1..Len(ws) |->
        IF ws[w].document_id # document_id THEN ws[w]
        ELSE IF w \in listed /\ ws[w].is_sentence_starter
        THEN [ws[w] EXCEPT !.sentence_number =
                Cardinality({v \in listed :
                               v <= w /\ ws[v].is_sentence_starter})]
        ELSE [ws[w] EXCEPT !.sentence_number = NULL]]

\* The words table after "SET sentence_number = NULL WHERE document_id = ?"
\* and the renumbering loop.
renumber_words(bs, ws, document_id) ==
  LET rows == sync_words(bs, ws, document_id)
      pos(w) == CHOOSE k \in 1..Len(rows) : rows[k] = w
      listed == {rows[k] : k \in 1..Len(rows)}
  IN [w \in 1..Len(ws) |->
        IF ws[w].document_id # document_id THEN ws[w]
        ELSE IF w \in listed /\ ws[w].is_sentence_starter
        THEN [ws[w] EXCEPT !.sentence_number = StartersUpTo(ws, rows, pos(w))]
        ELSE [ws[w] EXCEPT !.sentence_number = NULL]]

\* sync_sentences with "DELETE FROM sentences" for every document.
sync_sentences_delete_all(bs, ws, ss, document_id) ==
  LET rows == sync_rows(bs, ws, document_id)
  IN IF rows = <<>>
     THEN [ok |-> FALSE, words |-> ws, sentences |-> ss]
     ELSE [ok |-> TRUE,
           words |-> renumber_words(bs, ws, document_id),
           sentences |-> build_sentences(bs, ws, document_id, rows)]

\* sync_sentences(document_id) on the tables (bs, ws, ss): what it returns
\* and what it commits.
sync_sentences(bs, ws, ss, document_id) ==
  LET rows == sync_rows(bs, ws, document_id)
  IN IF rows = <<>>
     THEN [ok |-> FALSE, words |-> ws, sentences |-> ss]
     ELSE [ok |-> TRUE,
           words |-> renumber_words(bs, ws, document_id),
           sentences |-> {s \in ss : s.document_id # document_id}
                           \cup build_sentences(bs, ws, document_id, rows)]

\* A direct call of sync_sentences.
sync_sentences_call(document_id) ==
  LET r == sync_sentences(blocks, words, sentences, document_id)
  IN /\ words' = r.words
     /\ sentences' = r.sentences
     /\ request' = [op |-> "sync_sentences", args |-> <<document_id>>]
     /\ response' = [status |-> 0, result |-> r.ok]
     /\ UNCHANGED <<sqlite_sequence, uploads, documents, pages, blocks, inflight>>

(***************************************************************************)
(* Consistency coordinator: toggle_sentence_starter,                       *)
(* reset_sentence_numbers_endpoint                                         *)
(***************************************************************************)

\* find_word with the page_id condition of the SELECT left out.
find_word_any_page(ws, document_id, page_id, block_id, word_number) ==
  {w \in 1..Len(ws) : /\ ws[w].document_id = document_id
                      /\ ws[w].block_id = block_id
                      /\ ws[w].word_number = word_number}

\* SELECT ... FROM words WHERE document_id, page_id, block_id, word_number
find_word(ws, document_id, page_id, block_id, word_number) ==
  {w \in 1..Len(ws) : /\ ws[w].document_id = document_id
                      /\ ws[w].page_id = page_id
                      /\ ws[w].block_id = block_id
                      /\ ws[w].word_number = word_number}

\* flip_starter with "SET is_sentence_starter = 1" in place of the negation.
flip_starter_set(ws, id) ==
  [ws EXCEPT ![id] =
     [@ EXCEPT !.is_sentence_starter = TRUE,
               !.sentence_number = IF ws[id].is_sentence_starter = FALSE
                                   THEN NULL ELSE ws[id].sentence_number]]

\* flip_starter with "SET is_sentence_starter = 0" in place of the negation.
flip_starter_clear(ws, id) ==
  [ws EXCEPT ![id] =
     [@ EXCEPT !.is_sentence_starter = FALSE,
               !.sentence_number = IF ws[id].is_sentence_starter = FALSE
                                   THEN NULL ELSE ws[id].sentence_number]]

\* UPDATE words SET is_sentence_starter = NOT is_sentence_starter,
\*   sentence_number = CASE WHEN is_sentence_starter = 0 THEN NULL
\*                          ELSE sentence_number END WHERE id = ?
\* (the right-hand sides read the row as it was before the UPDATE).
flip_starter(ws, id) ==
  [ws EXCEPT ![id] =
     [@ EXCEPT !.is_sentence_starter = ~ ws[id].is_sentence_starter,
               !.sentence_number = IF ws[id].is_sentence_starter = FALSE
                                   THEN NULL ELSE ws[id].sentence_number]]

\* The starters of the activated blocks: words JOIN blocks JOIN pages.
toggle_starters(bs, ws, document_id) ==
  OrderRows(bs, ws,
    {w \in 1..Len(ws) :
       /\ ws[w].document_id = document_id
       /\ ws[w].block_id \in 1..Len(bs)
       /\ ws[w].page_id \in 1..Len(pages)
       /\ bs[ws[w].block_id].user_order # NULL
       /\ ws[w].is_sentence_starter})

\* The inline renumbering of toggle_sentence_starter: NULL for the starters of
\* the document, then 1.. over sentence_starters.
toggle_renumber(bs, ws, document_id) ==
  LET starters == toggle_starters(bs, ws, document_id)
      listed == {starters[k] : k \in 1..Len(starters)}
  IN [w \in 1..Len(ws) |->
        IF w \in listed
        THEN [ws[w] EXCEPT !.sentence_number =
                CHOOSE k \in 1..Len(starters) : starters[k] = w]
        ELSE IF ws[w].document_id = document_id /\ ws[w].is_sentence_starter
        THEN [ws[w] EXCEPT !.sentence_number = NULL]
        ELSE ws[w]]

toggle_sentence_starter(document_id, page_id, block_id, word_number) ==
  LET found == find_word(words, document_id, page_id, block_id, word_number)
      req == [op |-> "toggle_sentence_starter",
              args |-> <<document_id, page_id, block_id, word_number>>]
  IN IF found = {}
     THEN /\ request' = req
          /\ response' = [status |-> 404, result |-> FALSE]
          /\ UNCHANGED <<sqlite_sequence, uploads, documents, pages, blocks, words, sentences,
                         inflight>>
     ELSE LET id == CHOOSE w \in found : \A v \in found : w <= v
              committed == toggle_renumber(blocks, flip_starter(words, id),
                                           document_id)
              r == sync_sentences(blocks, committed, sentences, document_id)
          IN /\ words' = r.words
             /\ sentences' = r.sentences
             /\ request' = req
             /\ response' = [status |-> 200, result |-> TRUE]
             /\ UNCHANGED <<sqlite_sequence, uploads, documents, pages, blocks, inflight>>

\* The activated blocks in user order: blocks JOIN pages ORDER BY user_order.
reset_blocks(bs, document_id) ==
  LET ids == {b \in 1..Len(bs) : /\ bs[b].document_id = document_id
                                 /\ bs[b].page_id \in 1..Len(pages)
                                 /\ bs[b].user_order # NULL}
      before(b, c) == \/ bs[b].user_order < bs[c].user_order
                      \/ bs[b].user_order = bs[c].user_order /\ b < c
  IN [k \in 1..Cardinality(ids) |->
        CHOOSE b \in ids : Cardinality({c \in ids : before(c, b)}) = k - 1]

\* The starters of one activated block, ORDER BY word_number.
block_starters(ws, document_id, page_id, block_id) ==
  {w \in 1..Len(ws) : /\ ws[w].document_id = document_id
                      /\ ws[w].page_id = page_id
                      /\ ws[w].block_id = block_id
                      /\ ws[w].is_sentence_starter}

\* The inline renumbering of the reset endpoint: NULL for every word of the
\* document, then 1.. block by block.
reset_renumber(bs, ws, document_id) ==
  LET bl == reset_blocks(bs, document_id)
      in_block(k) == block_starters(ws, document_id, bs[bl[k]].page_id, bl[k])
      earlier(w, k) ==
        Cardinality(UNION {in_block(j) : j \in 1..(k-1)})
        + Cardinality({v \in in_block(k) :
                          \/ ws[v].word_number < ws[w].word_number
                          \/ ws[v].word_number = ws[w].word_number /\ v < w})
  IN [w \in 1..Len(ws) |->
        IF ws[w].document_id # document_id THEN ws[w]
        ELSE IF \E k \in 1..Len(bl) : w \in in_block(k)
        THEN LET k == CHOOSE k \in 1..Len(bl) :
                        /\ w \in in_block(k)
                        /\ \A j \in 1..Len(bl) : w \in in_block(j) => j <= k
             IN [ws[w] EXCEPT !.sentence_number = earlier(w, k) + 1]
        ELSE [ws[w] EXCEPT !.sentence_number = NULL]]

reset_sentence_numbers_endpoint(document_id) ==
  LET committed == reset_renumber(blocks, words, document_id)
      r == sync_sentences(blocks, committed, sentences, document_id)
  IN /\ words' = r.words
     /\ sentences' = r.sentences
     /\ request' = [op |-> "reset_sentence_numbers_endpoint",
                    args |-> <<document_id>>]
     /\ response' = [status |-> 200, result |-> TRUE]
     /\ UNCHANGED <<sqlite_sequence, uploads, documents, pages, blocks, inflight>>

(***************************************************************************)
(* Custom sentences: add_custom_sentence                                   *)
(***************************************************************************)

\* Largest user_order the model lets activate_block assign under SpecCustom.
CustomMaxOrder == 2

\* Largest sentence_number the model lets add_custom_sentence assign.
CustomMaxNumber == 2

\* The files uploaded over a run of SpecCustom: document 1 has one page with
\* two blocks of one word, "A" and "c".
CustomUploads == <<PdfE>>

\* SELECT MAX(sentence_number) FROM sentences WHERE document_id, page_id,
\* block_id, "or 0", plus 1.
new_sentence_num(ss, document_id, page_id, block_id) ==
  Max({0} \cup {s.sentence_number :
                  s \in {t \in ss : /\ t.document_id = document_id
                                    /\ t.page_id = page_id
                                    /\ t.block_id = block_id}}) + 1

\* A request that carries the five required fields: the sentence is inserted
\* under the next number of the block, whether or not the block exists.
add_custom_sentence(document_id, page_id, block_id, text) ==
  /\ sentences' = sentences \cup
       {[document_id |-> document_id, page_id |-> page_id,
         block_id |-> block_id,
         sentence_number |->
           new_sentence_num(sentences, document_id, page_id, block_id),
         text |-> text,
         rhetorical_function |-> NULL, relevance |-> NULL]}
  /\ request' = [op |-> "add_custom_sentence",
                 args |-> <<document_id, page_id, block_id>>]
  /\ response' = [status |-> 200, result |-> TRUE]
  /\ UNCHANGED <<sqlite_sequence, uploads, documents, pages, blocks, words,
                 inflight>>

(***************************************************************************)
(* Document removal: delete_document                                       *)
(***************************************************************************)

\* Largest user_order the model lets activate_block assign under SpecDelete.
DeleteMaxOrder == 1

\* The files uploaded over a run of SpecDelete: document 1 has one block with
\* the words "A." and "B", document 2 one block with the word "E".
DeleteUploads == <<PdfD, PdfB>>

\* DELETE FROM documents removes the row of the document and nothing else:
\* no table declares ON DELETE CASCADE and the connection leaves foreign-key
\* enforcement off. The file is removed from the upload folder if it is there.
delete_document(document_id) ==
  /\ request' = [op |-> "delete_document", args |-> <<document_id>>]
  /\ IF document_id \notin documents
     THEN /\ response' = [status |-> 404, result |-> FALSE]
          /\ UNCHANGED <<sqlite_sequence, uploads, documents, pages, blocks,
                         words, sentences, inflight>>
     ELSE /\ documents' = documents \ {document_id}
          /\ uploads' = uploads \ {document_id}
          /\ response' = [status |-> 200, result |-> TRUE]
          /\ UNCHANGED <<sqlite_sequence, pages, blocks, words, sentences,
                         inflight>>

(***************************************************************************)
(* Storage faults: an exception raised by a statement of sync_sentences    *)
(*                                                                         *)
(* A fault names the place where the exception is raised: after the DELETE *)
(* of the stored sentences ("delete"), after the first INSERT of a         *)
(* sentence ("insert"), after the UPDATE that clears the sentence numbers  *)
(* ("renumber"), or in the verification SELECT that follows conn.commit()  *)
(* ("verify"). The request of a step that met a fault carries it in its    *)
(* field fault.                                                            *)
(***************************************************************************)

SyncFaults == {"delete", "insert", "renumber", "verify"}

\* Largest user_order the model lets activate_block assign under SpecFault.
FaultMaxOrder == 2

\* The fault a handled request met ("none" when it met none).
Fault(r) == IF "fault" \in DOMAIN r THEN r.fault ELSE "none"

\* The tables inside the transaction of sync_sentences when the exception is
\* raised ahead of conn.commit().
sync_partial(bs, ws, ss, document_id, fault) ==
  LET kept == {s \in ss : s.document_id # document_id}
      built == build_sentences(bs, ws, document_id,
                               sync_rows(bs, ws, document_id))
  IN IF fault = "delete" THEN [words |-> ws, sentences |-> kept]
     ELSE IF fault = "insert"
     THEN [words |-> ws,
           sentences |-> kept \cup {s \in built : s.sentence_number = 1}]
     ELSE [words |-> [w \in 1..Len(ws) |->
                        IF ws[w].document_id = document_id
                        THEN [ws[w] EXCEPT !.sentence_number = NULL]
                        ELSE ws[w]],
           sentences |-> kept \cup built]

\* The except clause with the transaction committed in place of rolled back.
sync_rollback_missing(committed, partial) == partial

\* except Exception: conn.rollback() -- the tables of the file after it.
sync_rollback(committed, partial) == committed

\* sync_sentences(document_id) when the storage raises at fault.
sync_sentences_fault(bs, ws, ss, document_id, fault) ==
  LET done == sync_sentences(bs, ws, ss, document_id)
  IN IF sync_rows(bs, ws, document_id) = <<>> THEN done
     ELSE IF fault = "verify"
     THEN [ok |-> FALSE, words |-> done.words, sentences |-> done.sentences]
     ELSE LET back == sync_rollback(
                        [words |-> ws, sentences |-> ss],
                        sync_partial(bs, ws, ss, document_id, fault))
          IN [ok |-> FALSE, words |-> back.words, sentences |-> back.sentences]

\* A direct call of sync_sentences that meets a fault (it has rows to
\* process: with none it returns ahead of every fault).
sync_sentences_call_fault(document_id, fault) ==
  LET r == sync_sentences_fault(blocks, words, sentences, document_id, fault)
  IN /\ sync_rows(blocks, words, document_id) # <<>>
     /\ words' = r.words
     /\ sentences' = r.sentences
     /\ request' = [op |-> "sync_sentences", args |-> <<document_id>>,
                    fault |-> fault]
     /\ response' = [status |-> 0, result |-> r.ok]
     /\ UNCHANGED <<sqlite_sequence, uploads, documents, pages, blocks, inflight>>

\* toggle_sentence_starter when its call of sync_sentences meets a fault: the
\* flip and the inline renumbering are committed before the call, and the
\* value the call returns is not read.
toggle_sentence_starter_fault(document_id, page_id, block_id, word_number, fault) ==
  LET found == find_word(words, document_id, page_id, block_id, word_number)
  IN /\ found # {}
     /\ LET id == CHOOSE w \in found : \A v \in found : w <= v
            committed == toggle_renumber(blocks, flip_starter(words, id),
                                         document_id)
            r == sync_sentences_fault(blocks, committed, sentences,
                                      document_id, fault)
        IN /\ sync_rows(blocks, committed, document_id) # <<>>
           /\ words' = r.words
           /\ sentences' = r.sentences
     /\ request' = [op |-> "toggle_sentence_starter",
                    args |-> <<document_id, page_id, block_id, word_number>>,
                    fault |-> fault]
     /\ response' = [status |-> 200, result |-> TRUE]
     /\ UNCHANGED <<sqlite_sequence, uploads, documents, pages, blocks, inflight>>

\* reset_sentence_numbers_endpoint when its call of sync_sentences meets a
\* fault.
reset_sentence_numbers_endpoint_fault(document_id, fault) ==
  LET committed == reset_renumber(blocks, words, document_id)
      r == sync_sentences_fault(blocks, committed, sentences, document_id,
                                fault)
  IN /\ sync_rows(blocks, committed, document_id) # <<>>
     /\ words' = r.words
     /\ sentences' = r.sentences
     /\ request' = [op |-> "reset_sentence_numbers_endpoint",
                    args |-> <<document_id>>, fault |-> fault]
     /\ response' = [status |-> 200, result |-> TRUE]
     /\ UNCHANGED <<sqlite_sequence, uploads, documents, pages, blocks, inflight>>

(***************************************************************************)
(* Concurrent requests: the statements of a handler on its own connection  *)
(*                                                                         *)
(* get_db_connection sets isolation_level = 'IMMEDIATE': the sqlite3       *)
(* module opens the transaction (BEGIN IMMEDIATE, the write lock of the    *)
(* file) before the first INSERT, UPDATE or DELETE of a connection and not *)
(* before a SELECT. A SELECT ahead of the first write therefore reads the  *)
(* committed state without any lock held afterwards; the writes up to      *)
(* conn.commit() become visible together, and no other connection writes  *)
(* in between. A handler is one step per SELECT ahead of its first write,  *)
(* and one step from its first write to its commit.                        *)
(***************************************************************************)

\* The connections that carry a request at the same time.
Connections == 1..2

\* Largest user_order the model lets activate_block read as next_order under
\* SpecRace.
RaceMaxOrder == 2

\* A connection with no handler on it.
Idle == [pc |-> "idle", op |-> "", args |-> <<>>, read |-> NULL,
         rows |-> <<>>]

\* The targets of the activate-block requests of SpecRace: the two blocks of
\* document 1.
RaceTargets == {<<1,1,1>>, <<1,2,1>>}

\* result['user_order'] of the deactivation branch: the order of the first
\* selected block, NULL when no row is selected.
selected_order(bs, document_id, page_number, block_number) ==
  LET target == TargetBlocks(bs, document_id, page_number, block_number)
  IN IF target = {} THEN NULL
     ELSE bs[CHOOSE b \in target : \A c \in target : b <= c].user_order

\* UPDATE blocks SET user_order = ? WHERE document_id, page_id, block_number
set_user_order(bs, document_id, page_number, block_number, n) ==
  LET target == TargetBlocks(bs, document_id, page_number, block_number)
  IN [b \in 1..Len(bs) |->
        IF b \in target THEN [bs[b] EXCEPT !.user_order = n] ELSE bs[b]]

\* The statements of activate_block ahead of its first UPDATE: the SELECT of
\* the branch, on connection c.
activate_block_select(c, document_id, page_number, block_number, is_activating) ==
  /\ inflight[c] = Idle
  /\ inflight' = [inflight EXCEPT ![c] =
       [pc |-> "update", op |-> "activate_block",
        args |-> <<document_id, page_number, block_number,
                   IF is_activating THEN 1 ELSE 0>>,
        read |-> IF is_activating
                 THEN next_order(blocks, document_id)
                 ELSE selected_order(blocks, document_id, page_number,
                                     block_number),
        rows |-> <<>>]]
  /\ UNCHANGED <<sqlite_sequence, uploads, documents, pages, blocks, words, sentences, request,
                 response>>

\* The UPDATEs of activate_block and its commit, with the number the SELECT
\* returned.
activate_block_write(c) ==
  /\ inflight[c].op = "activate_block"
  /\ LET a == inflight[c].args
         n == inflight[c].read
     IN /\ blocks' =
             IF a[4] = 1 THEN set_user_order(blocks, a[1], a[2], a[3], n)
             ELSE IF n = NULL \/ n = 0 THEN blocks
             ELSE compact(set_user_order(blocks, a[1], a[2], a[3], NULL),
                          a[1], n)
        /\ request' = [op |-> "activate_block", args |-> a]
  /\ response' = [status |-> 200, result |-> TRUE]
  /\ inflight' = [inflight EXCEPT ![c] = Idle]
  /\ UNCHANGED <<sqlite_sequence, uploads, documents, pages, words, sentences>>

\* The first UPDATE of activate_block to its commit as one step: no other
\* connection writes in between.
activate_block_commit(c) ==
  /\ inflight[c].pc = "update"
  /\ activate_block_write(c)

\* Largest user_order the model lets activate_block read as next_order under
\* SpecLock.
LockMaxOrder == 2

\* Another connection is between its BEGIN IMMEDIATE and its commit: it holds
\* the write lock, which is a lock of the database file and so of every
\* document stored in it.
database_is_locked(c) ==
  \E o \in Connections \ {c} : inflight[o].pc = "commit"

\* activate_block runs no UPDATE when it deactivates a block that has no order.
writes_nothing(c) ==
  /\ inflight[c].args[4] = 0
  /\ inflight[c].read \in {NULL, 0}

\* The first UPDATE of activate_block opens the transaction: BEGIN IMMEDIATE
\* takes the write lock, or waits for it in the busy handler (timeout=30.0).
activate_block_begin(c) ==
  /\ inflight[c].pc = "update"
  /\ inflight[c].op = "activate_block"
  /\ inflight' = [inflight EXCEPT ![c].pc =
       IF database_is_locked(c) /\ ~writes_nothing(c) THEN "busy"
       ELSE "commit"]
  /\ UNCHANGED <<sqlite_sequence, uploads, documents, pages, blocks, words,
                 sentences, request, response>>

\* The busy handler finds the write lock free and takes it.
activate_block_retry(c) ==
  /\ inflight[c].pc = "busy"
  /\ ~database_is_locked(c)
  /\ inflight' = [inflight EXCEPT ![c].pc = "commit"]
  /\ UNCHANGED <<sqlite_sequence, uploads, documents, pages, blocks, words,
                 sentences, request, response>>

\* The lock stays taken for the 30 seconds of the timeout: the UPDATE raises
\* "database is locked" and the handler answers 500.
activate_block_locked(c) ==
  /\ inflight[c].pc = "busy"
  /\ database_is_locked(c)
  /\ request' = [op |-> "activate_block", args |-> inflight[c].args]
  /\ response' = [status |-> 500, result |-> FALSE]
  /\ inflight' = [inflight EXCEPT ![c] = Idle]
  /\ UNCHANGED <<sqlite_sequence, uploads, documents, pages, blocks, words,
                 sentences>>

\* The remaining UPDATEs of activate_block and conn.commit(), which frees the
\* write lock.
activate_block_end(c) ==
  /\ inflight[c].pc = "commit"
  /\ activate_block_write(c)

\* Largest user_order the model lets activate_block assign under SpecSteps.
StepMaxOrder == 1

\* toggle_sentence_starter up to its conn.commit(): the flip and the inline
\* renumbering of a word that exists. Its call of sync_sentences comes next.
toggle_sentence_starter_commit(c, document_id, page_id, block_id, word_number) ==
  LET found == find_word(words, document_id, page_id, block_id, word_number)
  IN /\ inflight[c] = Idle
     /\ found # {}
     /\ words' = toggle_renumber(
                   blocks,
                   flip_starter(words,
                                CHOOSE w \in found : \A v \in found : w <= v),
                   document_id)
     /\ inflight' = [inflight EXCEPT ![c] =
          [pc |-> "select", op |-> "toggle_sentence_starter",
           args |-> <<document_id, page_id, block_id, word_number>>,
           read |-> NULL, rows |-> <<>>]]
     /\ UNCHANGED <<sqlite_sequence, uploads, documents, pages, blocks, sentences, request, response>>

\* reset_sentence_numbers_endpoint up to its conn.commit(). Its call of
\* sync_sentences comes next.
reset_sentence_numbers_commit(c, document_id) ==
  /\ inflight[c] = Idle
  /\ words' = reset_renumber(blocks, words, document_id)
  /\ inflight' = [inflight EXCEPT ![c] =
       [pc |-> "select", op |-> "reset_sentence_numbers_endpoint",
        args |-> <<document_id>>, read |-> NULL, rows |-> <<>>]]
  /\ UNCHANGED <<sqlite_sequence, uploads, documents, pages, blocks, sentences, request, response>>

\* What the handler op answers once its sync_sentences has returned ok.
answer(op, ok) ==
  IF op = "sync_sentences" THEN [status |-> 0, result |-> ok]
  ELSE [status |-> 200, result |-> TRUE]

\* The first SELECT of sync_sentences(args[1]) on connection c, called by op:
\* with no row the call returns False and the handler answers; with rows the
\* connection keeps them (the columns the loop reads) for its writes.
sync_select(c, op, args) ==
  LET ids == sync_rows(blocks, words, args[1])
  IN IF ids = <<>>
     THEN /\ inflight' = [inflight EXCEPT ![c] = Idle]
          /\ request' = [op |-> op, args |-> args]
          /\ response' = answer(op, FALSE)
          /\ UNCHANGED <<sqlite_sequence, uploads, documents, pages, blocks, words, sentences>>
     ELSE /\ inflight' = [inflight EXCEPT ![c] =
               [pc |-> "write", op |-> op, args |-> args, read |-> NULL,
                rows |-> [k \in 1..Len(ids) |->
                            [block_id |-> words[ids[k]].block_id,
                             text |-> words[ids[k]].text,
                             is_sentence_starter |->
                               words[ids[k]].is_sentence_starter]]]]
          /\ UNCHANGED <<sqlite_sequence, uploads, documents, pages, blocks, words, sentences,
                         request, response>>

\* A direct call of sync_sentences, up to its first SELECT.
sync_sentences_call_select(c, document_id) ==
  /\ inflight[c] = Idle
  /\ sync_select(c, "sync_sentences", <<document_id>>)

\* The first SELECT of the sync_sentences that a toggle or a reset calls after
\* its commit.
sync_sentences_select(c) ==
  /\ inflight[c].pc = "select"
  /\ sync_select(c, inflight[c].op, inflight[c].args)

\* The writes of sync_sentences and its commit: the sentences are built from
\* the rows its first SELECT returned, the words are renumbered from the
\* SELECT inside the transaction.
sync_sentences_commit(c) ==
  /\ inflight[c].pc = "write"
  /\ LET document_id == inflight[c].args[1]
         rows == inflight[c].rows
     IN /\ sentences' = {s \in sentences : s.document_id # document_id}
                          \cup build_sentences(blocks, rows, document_id,
                                               [k \in 1..Len(rows) |-> k])
        /\ words' = renumber_words(blocks, words, document_id)
  /\ request' = [op |-> inflight[c].op, args |-> inflight[c].args]
  /\ response' = answer(inflight[c].op, TRUE)
  /\ inflight' = [inflight EXCEPT ![c] = Idle]
  /\ UNCHANGED <<sqlite_sequence, uploads, documents, pages, blocks>>

(***************************************************************************)
(* Specification                                                           *)
(***************************************************************************)

\* The (document_id, page_number, block_number) of the activate-block
\* requests of Spec: the two blocks of document 1, a block number and a
\* document that do not exist.
ActivateTargets == {<<1,1,1>>, <<1,2,1>>, <<1,1,2>>, <<2,1,1>>}

\* The (document_id, page_id, block_id, word_number) of the toggle requests of
\* Spec: the three words, a word number that does not exist, a block that is
\* not on the page, a document that does not exist.
ToggleRequests == {<<1,1,1,1>>, <<1,1,1,2>>, <<1,2,2,1>>,
                   <<1,2,2,2>>, <<1,1,2,1>>, <<2,1,1,1>>}

\* The document_id of the reset and sync requests of Spec.
DocIds == 1..2

\* The targets of the activate-block requests of SpecLedger: the four blocks,
\* a block number that does not exist, a page of another document, a document
\* that does not exist.
LedgerTargets == {<<1,1,1>>, <<1,1,2>>, <<1,2,1>>, <<2,1,1>>,
                  <<1,2,2>>, <<2,2,1>>, <<3,1,1>>}

Init ==
  /\ sqlite_sequence = 0
  /\ uploads = {}
  /\ documents = {}
  /\ pages = <<>>
  /\ blocks = <<>>
  /\ words = <<>>
  /\ sentences = {}
  /\ request = [op |-> "init_db", args |-> <<>>]
  /\ response = [status |-> 0, result |-> TRUE]
  /\ inflight = [c \in Connections |-> Idle]

Next ==
  \/ upload_file(Uploads)
  \/ \E t \in ActivateTargets, a \in BOOLEAN :
       /\ a => next_order(blocks, t[1]) <= MaxOrder
       /\ activate_block(t[1], t[2], t[3], a)
  \/ \E t \in ToggleRequests :
       toggle_sentence_starter(t[1], t[2], t[3], t[4])
  \/ \E d \in DocIds : reset_sentence_numbers_endpoint(d)
  \/ \E d \in DocIds : sync_sentences_call(d)

Spec == Init /\ [][Next]_vars

NextLedger ==
  \/ upload_file(LedgerUploads)
  \/ \E t \in LedgerTargets, a \in BOOLEAN :
       /\ a => next_order(blocks, t[1]) <= LedgerMaxOrder
       /\ activate_block(t[1], t[2], t[3], a)

SpecLedger == Init /\ [][NextLedger]_vars

\* Two connections answer activate-block requests at the same time.
NextRace ==
  \/ upload_file(Uploads)
  \/ \E c \in Connections, t \in RaceTargets, a \in BOOLEAN :
       /\ a => next_order(blocks, t[1]) <= RaceMaxOrder
       /\ activate_block_select(c, t[1], t[2], t[3], a)
  \/ \E c \in Connections : activate_block_commit(c)

SpecRace == Init /\ [][NextRace]_vars

\* The requests of SpecFault: the block and the two words of document 1, and
\* a word number that does not exist.
FaultTargets == {<<1,1,1>>}
FaultToggles == {<<1,1,1,1>>, <<1,1,1,2>>, <<1,1,1,3>>}

\* Requests run one at a time; a call of sync_sentences may meet a fault.
NextFault ==
  \/ upload_file(FaultUploads)
  \/ \E t \in FaultTargets, a \in BOOLEAN :
       /\ a => next_order(blocks, t[1]) <= FaultMaxOrder
       /\ activate_block(t[1], t[2], t[3], a)
  \/ \E t \in FaultToggles :
       toggle_sentence_starter(t[1], t[2], t[3], t[4])
  \/ reset_sentence_numbers_endpoint(1)
  \/ sync_sentences_call(1)
  \/ \E f \in SyncFaults : sync_sentences_call_fault(1, f)
  \/ \E t \in FaultToggles, f \in SyncFaults :
       toggle_sentence_starter_fault(t[1], t[2], t[3], t[4], f)
  \/ \E f \in SyncFaults : reset_sentence_numbers_endpoint_fault(1, f)

SpecFault == Init /\ [][NextFault]_vars

\* The requests of SpecDelete: the block of each document, and the two
\* documents and a document that is never uploaded.
DeleteBlocks == {<<1,1,1>>, <<2,1,1>>}
DeleteTargets == {1, 2, 3}

NextDelete ==
  \/ upload_file(DeleteUploads)
  \/ \E t \in DeleteBlocks, a \in BOOLEAN :
       /\ a => next_order(blocks, t[1]) <= DeleteMaxOrder
       /\ activate_block(t[1], t[2], t[3], a)
  \/ \E d \in DeleteTargets : sync_sentences_call(d)
  \/ \E d \in DeleteTargets : delete_document(d)

SpecDelete == Init /\ [][NextDelete]_vars

\* Two documents of one block each; the statements of two activate_block
\* requests interleave, and the first UPDATE of each takes the write lock.
NextLock ==
  \/ /\ \A c \in Connections : inflight[c] = Idle
     /\ upload_file(DeleteUploads)
  \/ \E c \in Connections, t \in DeleteBlocks, a \in BOOLEAN :
       /\ a => next_order(blocks, t[1]) <= LockMaxOrder
       /\ activate_block_select(c, t[1], t[2], t[3], a)
  \/ \E c \in Connections : activate_block_begin(c)
  \/ \E c \in Connections : activate_block_retry(c)
  \/ \E c \in Connections : activate_block_locked(c)
  \/ \E c \in Connections : activate_block_end(c)

SpecLock == Init /\ [][NextLock]_vars

\* Largest user_order the model lets activate_block assign under SpecPair.
PairMaxOrder == 2

\* The files uploaded over a run of SpecPair: document 1 has one page with
\* two blocks of one word, "A" and "c", document 2 one block with the word
\* "E".
PairUploads == <<PdfE, PdfB>>

\* The requests of SpecPair: the blocks and the words of the two documents.
PairBlocks == {<<1,1,1>>, <<1,1,2>>, <<2,1,1>>}
PairToggles == {<<1,1,1,1>>, <<1,1,2,1>>, <<2,2,3,1>>}

\* Requests on two documents, one at a time.
NextPair ==
  \/ upload_file(PairUploads)
  \/ \E t \in PairBlocks, a \in BOOLEAN :
       /\ a => next_order(blocks, t[1]) <= PairMaxOrder
       /\ activate_block(t[1], t[2], t[3], a)
  \/ \E t \in PairToggles :
       toggle_sentence_starter(t[1], t[2], t[3], t[4])
  \/ \E d \in DocIds : reset_sentence_numbers_endpoint(d)
  \/ \E d \in DocIds : sync_sentences_call(d)

SpecPair == Init /\ [][NextPair]_vars

\* The requests of SpecCustom: the two blocks of document 1, and the
\* (document_id, page_id, block_id) and the text of a custom sentence.
CustomBlocks == {<<1,1,1>>, <<1,1,2>>}
CustomTexts == {<<"X">>}

NextCustom ==
  \/ upload_file(CustomUploads)
  \/ \E t \in CustomBlocks, a \in BOOLEAN :
       /\ a => next_order(blocks, t[1]) <= CustomMaxOrder
       /\ activate_block(t[1], t[2], t[3], a)
  \/ sync_sentences_call(1)
  \/ \E t \in CustomBlocks, x \in CustomTexts :
       /\ new_sentence_num(sentences, t[1], t[2], t[3]) <= CustomMaxNumber
       /\ add_custom_sentence(t[1], t[2], t[3], x)

SpecCustom == Init /\ [][NextCustom]_vars

\* The blocks of the activate-block requests of SpecRecency: the three blocks
\* of document 1 and the block of document 2.
RecencyTargets == {<<1,1,1>>, <<1,1,2>>, <<1,2,1>>, <<2,1,1>>}

\* Activate requests on inactive blocks and deactivate requests on active
\* blocks only.
NextRecency ==
  \/ upload_file(LedgerUploads)
  \/ \E t \in RecencyTargets :
       /\ TargetBlocks(blocks, t[1], t[2], t[3]) # {}
       /\ \A b \in TargetBlocks(blocks, t[1], t[2], t[3]) :
            blocks[b].user_order = NULL
       /\ activate_block(t[1], t[2], t[3], TRUE)
  \/ \E t \in RecencyTargets :
       /\ \E b \in TargetBlocks(blocks, t[1], t[2], t[3]) :
            blocks[b].user_order # NULL
       /\ activate_block(t[1], t[2], t[3], FALSE)

SpecRecency == Init /\ [][NextRecency]_vars

NextClassify == \E files \in ClassifyUploads : upload_file(files)

SpecClassify == Init /\ [][NextClassify]_vars

\* The toggle requests of SpecSteps: the two words of document 1.
StepToggles == {<<1,1,1,1>>, <<1,1,1,2>>}

\* Two connections answer toggle, reset and sync requests at the same time,
\* statement by statement; activate-block requests run between their steps.
NextSteps ==
  \/ upload_file(FaultUploads)
  \/ \E a \in BOOLEAN :
       /\ a => next_order(blocks, 1) <= StepMaxOrder
       /\ activate_block(1, 1, 1, a)
  \/ \E c \in Connections, t \in StepToggles :
       toggle_sentence_starter_commit(c, t[1], t[2], t[3], t[4])
  \/ \E c \in Connections : reset_sentence_numbers_commit(c, 1)
  \/ \E c \in Connections : sync_sentences_call_select(c, 1)
  \/ \E c \in Connections : sync_sentences_select(c)
  \/ \E c \in Connections : sync_sentences_commit(c)

SpecSteps == Init /\ [][NextSteps]_vars

(***************************************************************************)
(* Properties                                                              *)
(***************************************************************************)

BlocksOf(d) == {b \in 1..Len(blocks) : blocks[b].document_id = d}
ActiveBlocks(d) == {b \in BlocksOf(d) : blocks[b].user_order # NULL}
WordsOf(d) == {w \in 1..Len(words) : words[w].document_id = d}
IsActive(w) == blocks[words[w].block_id].user_order # NULL
ActiveStarters(d) ==
  {w \in WordsOf(d) : words[w].is_sentence_starter /\ IsActive(w)}
AllDocs == 1..3

\* The blocks a handled activate-block request names.
Target(r) == TargetBlocks(blocks, r.args[1], r.args[2], r.args[3])
IsActivate(r) == r.op = "activate_block" /\ r.args[4] = 1
IsDeactivate(r) == r.op = "activate_block" /\ r.args[4] = 0

\* The activation orders of document d are exactly 1..K, each used once.
Dense(d) ==
  /\ {blocks[b].user_order : b \in ActiveBlocks(d)}
       = 1..Cardinality(ActiveBlocks(d))
  /\ \A b, c \in ActiveBlocks(d) :
       blocks[b].user_order = blocks[c].user_order => b = c

\* The sentences the materializer yields for the current blocks and words of
\* document d (none when no word is in an active block).
Materialized(d) ==
  build_sentences(blocks, words, d, sync_rows(blocks, words, d))

StoredSentences(d) == {s \in sentences : s.document_id = d}

\* The sentence numbers of the active starters of d are 1..N, each used once,
\* and increase along (activation order, word number).
NumbersDense(d) ==
  /\ \A w \in ActiveStarters(d) : words[w].sentence_number # NULL
  /\ {words[w].sentence_number : w \in ActiveStarters(d)}
       = 1..Cardinality(ActiveStarters(d))
  /\ \A v, w \in ActiveStarters(d) :
       Before(blocks, words, v, w)
         => words[v].sentence_number < words[w].sentence_number

\* C1: after every activate or deactivate call the non-null activation orders
\* of every document are exactly 1..K, K the number of its active blocks.
C1_DenseOrder ==
  request.op = "activate_block" => \A d \in AllDocs : Dense(d)

\* C2: a word's sentence_number is non-null if and only if the word is a
\* sentence starter and its block is active.
C2_NumberIffActiveStarter ==
  \A w \in 1..Len(words) :
    words[w].sentence_number # NULL
      <=> (words[w].is_sentence_starter /\ IsActive(w))

\* C3: after a completed toggle, reset, activate or deactivate the sentence
\* numbers of the active starters are 1..N, each used once, increasing along
\* (activation order, word number).
C3_RenumberingConsistent ==
  (/\ request.op \in {"toggle_sentence_starter", "activate_block",
                      "reset_sentence_numbers_endpoint"}
   /\ response.status = 200)
    => \A d \in AllDocs : NumbersDense(d)

\* C4: the stored sentences of every document are the sentences the
\* materializer yields for its current block orders and word flags.
C4_SentencesReproducible ==
  \A d \in AllDocs : StoredSentences(d) = Materialized(d)

\* C5: when an activate or deactivate request has changed the active set, the
\* stored sentences and the sentence numbers of the document are those of a
\* rebuild over the new active set.
C5_RebuildAfterActivation ==
  [][\A d \in AllDocs :
       (/\ request'.op = "activate_block"
        /\ request'.args[1] = d
        /\ ActiveBlocks(d)' # ActiveBlocks(d))
         => (/\ StoredSentences(d)' = Materialized(d)'
             /\ words' = renumber_words(blocks', words', d))]_vars

\* C6: activate on a block that is already active changes no activation
\* order.
C6_ActivateActiveNoOp ==
  [][(/\ IsActivate(request')
      /\ Target(request') # {}
      /\ \A b \in Target(request') : blocks[b].user_order # NULL)
       => blocks' = blocks]_vars

\* C7: activate on an inactive block gives it the order currentMax + 1 over
\* the active blocks of its document (1 when none is active) and changes the
\* order of no other block, of this or of another document.
C7_ActivateAssignsNext ==
  [][(/\ IsActivate(request')
      /\ Target(request') # {}
      /\ \A b \in Target(request') : blocks[b].user_order = NULL)
       => LET d == request'.args[1]
              active == ActiveBlocks(d)
          IN \A b \in 1..Len(blocks) :
               IF b \in Target(request')
               THEN \/ active = {} /\ blocks'[b].user_order = 1
                    \/ \E m \in active :
                         /\ \A c \in active :
                              blocks[c].user_order <= blocks[m].user_order
                         /\ blocks'[b].user_order = blocks[m].user_order + 1
               ELSE blocks'[b] = blocks[b]]_vars

\* C7 happens: block 2 of page 1 of document 1 was activated second, while
\* the block of document 2 is active.
C7_Witness ==
  /\ request = [op |-> "activate_block", args |-> <<1, 1, 2, 1>>]
  /\ Len(blocks) = 4
  /\ blocks[1].user_order = 1
  /\ blocks[2].user_order = 2
  /\ blocks[3].user_order = NULL
  /\ blocks[4].user_order = 1

\* C8: deactivate on an active block with order d sets its order to NULL,
\* decrements the order of every block of the document above d, leaves the
\* blocks below d (and the other documents) unchanged, and so keeps the
\* relative order of the remaining active blocks.
C8_DeactivateCompacts ==
  [][(/\ IsDeactivate(request')
      /\ \E t \in Target(request') : blocks[t].user_order # NULL)
       => LET doc == request'.args[1]
              t == CHOOSE t \in Target(request') : TRUE
              d == blocks[t].user_order
          IN /\ Target(request') = {t}
             /\ Len(blocks') = Len(blocks)
             /\ blocks'[t] = [blocks[t] EXCEPT !.user_order = NULL]
             /\ \A b \in 1..Len(blocks) \ {t} :
                  IF b \in ActiveBlocks(doc) /\ blocks[b].user_order > d
                  THEN blocks'[b] =
                         [blocks[b] EXCEPT !.user_order = blocks[b].user_order - 1]
                  ELSE blocks'[b] = blocks[b]
             /\ \A b, c \in ActiveBlocks(doc) \ {t} :
                  blocks[b].user_order < blocks[c].user_order
                    <=> blocks'[b].user_order < blocks'[c].user_order]_vars

\* C8 happens (Scenario B): of the three blocks of document 1, block 2 of
\* page 1 was deactivated and the two others now have the orders 1 and 2.
C8_Witness ==
  /\ request = [op |-> "activate_block", args |-> <<1, 1, 2, 0>>]
  /\ Len(blocks) >= 3
  /\ blocks[2].user_order = NULL
  /\ {blocks[1].user_order, blocks[3].user_order} = {1, 2}

\* C9: deactivate on a block that is not active changes no activation order,
\* no word and no stored sentence.
C9_DeactivateInactiveNoOp ==
  [][(/\ IsDeactivate(request')
      /\ Target(request') # {}
      /\ \A b \in Target(request') : blocks[b].user_order = NULL)
       => UNCHANGED <<blocks, words, sentences>>]_vars

\* C9 happens: the block of page 2 was deactivated while inactive, the block
\* of page 1 is active and its sentences are stored.
C9_Witness ==
  /\ request = [op |-> "activate_block", args |-> <<1, 2, 1, 0>>]
  /\ Len(blocks) = 2
  /\ blocks[2].user_order = NULL
  /\ blocks[1].user_order = 2
  /\ sentences # {}
  /\ \E w \in 1..Len(words) : words[w].sentence_number # NULL

\* C10: activate or deactivate on a block that does not exist in the stated
\* document answers NotFound.
C10_UnknownBlockNotFound ==
  (request.op = "activate_block" /\ Target(request) = {})
    => response.status = 404

\* C11: whatever the interleaving of two concurrent activate/deactivate
\* requests, no two active blocks of a document hold the same activation
\* order in a committed state (the read of the maximum and the update that
\* follows act as one step).
C11_NoDuplicateOrder ==
  \A d \in AllDocs : \A b, c \in ActiveBlocks(d) :
    blocks[b].user_order = blocks[c].user_order => b = c

\* C12: a toggle or reset request either commits the flag change, the
\* renumbering and the rebuilt sentences together, or commits none of them:
\* when its sentence rebuild fails, no word is changed.
C12_AllOrNothing ==
  [][(/\ request'.op \in {"toggle_sentence_starter",
                          "reset_sentence_numbers_endpoint"}
      /\ Fault(request') \in {"delete", "insert", "renumber"})
       => UNCHANGED <<words, sentences>>]_vars

\* C13: the state a toggle or a reset leaves visible between its own commit
\* and the commit of its sentence rebuild has no un-rebuilt sentence set:
\* when the stored sentences were the materializer's before that commit, they
\* still are after it.
C13_NoIntermediateState ==
  [][\A c \in Connections :
       (/\ inflight[c] = Idle
        /\ inflight'[c].pc = "select"
        /\ StoredSentences(1) = Materialized(1))
         => StoredSentences(1)' = Materialized(1)']_vars

\* C14: the sentences that sync_sentences commits are the materializer's
\* output over the blocks and words at its commit, whatever was committed by
\* another connection since its read.
C14_SyncReadsAtCommit ==
  [][\A c \in Connections :
       (inflight[c].pc = "write" /\ inflight'[c] = Idle)
         => StoredSentences(1)' = Materialized(1)']_vars

\* C15: a call of sync_sentences that fails after its DELETE, after an INSERT
\* or during the renumbering persists nothing (the stored sentences and every
\* word are those from before the call) and returns False.
C15_SyncFailureRollsBack ==
  [][(/\ request'.op = "sync_sentences"
      /\ Fault(request') \in {"delete", "insert", "renumber"})
       => (/\ sentences' = sentences
           /\ words' = words
           /\ response'.result = FALSE)]_vars

\* C15 happens: sync_sentences failed after its first INSERT while the block
\* is active, one sentence is stored, a word is numbered and the rebuild
\* would have stored two sentences.
C15_Witness ==
  /\ request.op = "sync_sentences"
  /\ Fault(request) = "insert"
  /\ response.result = FALSE
  /\ ActiveBlocks(1) # {}
  /\ Cardinality(StoredSentences(1)) = 1
  /\ Cardinality(Materialized(1)) = 2
  /\ \E w \in WordsOf(1) : words[w].sentence_number # NULL

\* The words a handled toggle request names.
Toggled(r) == find_word(words, r.args[1], r.args[2], r.args[3], r.args[4])

\* C16: after a toggle of a word that exists, in any state, the flag of the
\* word is the negation of what it was, no other flag has changed, the word
\* has no sentence number when its flag is now false, and the sentence numbers
\* and stored sentences of the document are those of a full rebuild.
C16_ToggleEffect ==
  [][\A d \in AllDocs :
       (/\ request'.op = "toggle_sentence_starter"
        /\ request'.args[1] = d
        /\ Toggled(request') # {})
         => (/\ Len(words') = Len(words)
             /\ \A w \in 1..Len(words) :
                  IF w \in Toggled(request')
                  THEN /\ words'[w].is_sentence_starter
                            = ~ words[w].is_sentence_starter
                       /\ ~ words'[w].is_sentence_starter
                            => words'[w].sentence_number = NULL
                  ELSE words'[w].is_sentence_starter
                         = words[w].is_sentence_starter
             /\ NumbersDense(d)'
             /\ StoredSentences(d)' = Materialized(d)')]_vars

\* C17: a toggle request that names no stored word (no word with that number
\* in that block, or a word whose document, page or block is not the stated
\* one) answers NotFound and changes no flag, no sentence number and no
\* stored sentence.
C17_ToggleUnknownWord ==
  [][(/\ request'.op = "toggle_sentence_starter"
      /\ ~ \E w \in 1..Len(words) :
             /\ words[w].document_id = request'.args[1]
             /\ words[w].page_id = request'.args[2]
             /\ words[w].block_id = request'.args[3]
             /\ words[w].word_number = request'.args[4])
       => (/\ response'.status = 404
           /\ UNCHANGED <<words, sentences, blocks>>)]_vars

\* C17 happens: a toggle named word 1 of block 2 on page 1 (the block is on
\* page 2) and was answered 404 while sentences are stored and words are
\* numbered.
C17_Witness ==
  /\ request = [op |-> "toggle_sentence_starter", args |-> <<1, 1, 2, 1>>]
  /\ response.status = 404
  /\ Len(words) = 3
  /\ words[3].block_id = 2 /\ words[3].page_id = 2
  /\ sentences # {}
  /\ \E w \in 1..Len(words) : words[w].sentence_number # NULL

\* C18: after a reset of document d, whatever the numbers were, no flag has
\* changed, the words of d with a sentence number are its active starters,
\* numbered 1..N along (activation order, word number), and the stored
\* sentences of d are those of a rebuild.
C18_ResetRederives ==
  [][\A d \in AllDocs :
       (/\ request'.op = "reset_sentence_numbers_endpoint"
        /\ request'.args[1] = d)
         => (/\ Len(words') = Len(words)
             /\ \A w \in 1..Len(words) :
                  words'[w].is_sentence_starter = words[w].is_sentence_starter
             /\ (\A w \in WordsOf(d) :
                   words[w].sentence_number # NULL
                     <=> (words[w].is_sentence_starter /\ IsActive(w)))'
             /\ NumbersDense(d)'
             /\ StoredSentences(d)' = Materialized(d)')]_vars

\* C19: a call of sync_sentences that directly follows a call of
\* sync_sentences on the same document changes no stored sentence (number,
\* text, page and block) and no word, and returns what the first returned.
C19_SyncIdempotent ==
  [][(/\ request.op = "sync_sentences"
      /\ request'.op = "sync_sentences"
      /\ request'.args = request.args)
       => (/\ sentences' = sentences
           /\ words' = words
           /\ response' = response)]_vars

\* C19 happens: sync_sentences has run over both blocks, active in the order
\* page 2, page 1, with two starters, and stored two sentences.
C19_Witness ==
  /\ request = [op |-> "sync_sentences", args |-> <<1>>]
  /\ response.result = TRUE
  /\ Len(blocks) = 2
  /\ blocks[2].user_order = 1 /\ blocks[1].user_order = 2
  /\ Cardinality(ActiveStarters(1)) = 2
  /\ Cardinality(StoredSentences(1)) = 2
  /\ StoredSentences(1) = Materialized(1)

\* The text begins with the word: the word's text, then the end of the text
\* or a space.
BeginsWith(text, word_text) ==
  /\ Len(text) >= Len(word_text)
  /\ SubSeq(text, 1, Len(word_text)) = word_text
  /\ Len(text) = Len(word_text) \/ text[Len(word_text) + 1] = " "

\* C20: after a rebuild every stored sentence numbered n begins with the
\* active starter word whose sentence number is n, also when the first word
\* of the stream is not a starter.
C20_SentenceBeginsWithStarter ==
  (request.op = "sync_sentences" /\ response.result = TRUE)
    => \A s \in StoredSentences(request.args[1]) :
         \E w \in ActiveStarters(request.args[1]) :
           /\ words[w].sentence_number = s.sentence_number
           /\ BeginsWith(s.text, words[w].text)

\* The active word stream of document d: its words in active blocks, ordered
\* by (activation order, word number).
Stream(d) == sync_rows(blocks, words, d)

\* The positions of the stream at which a sentence ends: the last one, and
\* every one followed by a starter.
Ends(d) ==
  {e \in 1..Len(Stream(d)) :
     \/ e = Len(Stream(d))
     \/ words[Stream(d)[e + 1]].is_sentence_starter}

\* The text ends with the word: the word's text, after the start of the text
\* or a space.
EndsWith(text, word_text) ==
  /\ Len(text) >= Len(word_text)
  /\ SubSeq(text, Len(text) - Len(word_text) + 1, Len(text)) = word_text
  /\ Len(text) = Len(word_text) \/ text[Len(text) - Len(word_text)] = " "

\* C21: after a rebuild the n-th sentence is stored under the block and the
\* page of its final word (the n-th position of the stream at which a
\* sentence ends), so a sentence that spans two active blocks is stored under
\* the later one.
C21_AttributedToFinalWord ==
  (request.op = "sync_sentences" /\ response.result = TRUE)
    => LET d == request.args[1]
       IN /\ Cardinality(StoredSentences(d)) = Cardinality(Ends(d))
          /\ \A e \in Ends(d) :
               \E s \in StoredSentences(d) :
                 /\ s.sentence_number = Cardinality({f \in Ends(d) : f <= e})
                 /\ EndsWith(s.text, words[Stream(d)[e]].text)
                 /\ s.block_id = words[Stream(d)[e]].block_id
                 /\ s.page_id = blocks[words[Stream(d)[e]].block_id].page_id

\* C21 happens: with the block of page 1 first and the block of page 2
\* second, the rebuild stored the sentence "A b. c", which starts in block 1
\* and ends in block 2, under block 2 and page 2.
C21_Witness ==
  /\ request = [op |-> "sync_sentences", args |-> <<1>>]
  /\ response.result = TRUE
  /\ Len(blocks) = 2
  /\ blocks[1].user_order = 1 /\ blocks[2].user_order = 2
  /\ \E s \in sentences :
       /\ s.text = <<"A", " ", "b", ".", " ", "c">>
       /\ s.block_id = 2 /\ s.page_id = 2

\* C22: after sync_sentences on a document with no active block the document
\* has no stored sentence and none of its words has a sentence number,
\* whatever was stored before the call.
C22_SyncNoActiveBlockEmpties ==
  (request.op = "sync_sentences" /\ ActiveBlocks(request.args[1]) = {})
    => (/\ StoredSentences(request.args[1]) = {}
        /\ \A w \in WordsOf(request.args[1]) :
             words[w].sentence_number = NULL)

\* C23: after a rebuild of a document whose active blocks hold words, none of
\* them a starter, the document has no stored sentence.
C23_NoStarterNoSentence ==
  (/\ request.op = "sync_sentences"
   /\ Stream(request.args[1]) # <<>>
   /\ ActiveStarters(request.args[1]) = {})
    => StoredSentences(request.args[1]) = {}

\* C24: what sync_sentences returns when it has failed differs from what it
\* returns for a document with no active block (document id 0 names no
\* document), so that the caller can tell the two apart.
C24_FailureDistinguishable ==
  (request.op = "sync_sentences" /\ Fault(request) \in SyncFaults)
    => response.result # sync_sentences(blocks, words, sentences, 0).ok

\* The words of a toggle request that are non-starters in an active block.
ToggledToStarter(r) ==
  {w \in Toggled(r) : ~ words[w].is_sentence_starter /\ IsActive(w)}

\* The word is the one with the largest word number of its block.
LastOfBlock(w) ==
  \A v \in 1..Len(words) :
    words[v].block_id = words[w].block_id
      => words[v].word_number <= words[w].word_number

\* C25 as stated: when the stored sentences are up to date, toggling (with
\* no storage fault) a
\* non-starter word of an active block to starter leaves the number of
\* stored sentences of the document as it was if the word is the last word
\* of its block.
C25_LastWordKeepsCount ==
  [][\A d \in AllDocs :
       (/\ request'.op = "toggle_sentence_starter"
        /\ Fault(request') = "none"
        /\ request'.args[1] = d
        /\ StoredSentences(d) = Materialized(d)
        /\ \E w \in ToggledToStarter(request') : LastOfBlock(w))
         => Cardinality(StoredSentences(d)')
              = Cardinality(StoredSentences(d))]_vars

\* C25 amended: toggling a non-starter word of an active block to starter
\* renumbers the active starters and stores the rebuilt sentences; their
\* number is that of a rebuild of the state before the toggle, plus 1 unless
\* the word is the first word of the active stream (then it is the same),
\* wherever the word stands in its block.
C25_SplitUnlessFirstOfStream ==
  [][\A d \in AllDocs :
       (/\ request'.op = "toggle_sentence_starter"
        /\ Fault(request') = "none"
        /\ request'.args[1] = d
        /\ ToggledToStarter(request') # {})
         => (/\ NumbersDense(d)'
             /\ StoredSentences(d)' = Materialized(d)'
             /\ Cardinality(StoredSentences(d)')
                  = Cardinality(Materialized(d))
                    + (IF Stream(d)[1] \in ToggledToStarter(request')
                       THEN 0 ELSE 1))]_vars

\* C25 happens: "B", the last word of the block, was toggled to starter with
\* no fault while the block is active and "A." is a starter; the two
\* sentences "A." and "B" are stored.
C25_Witness ==
  /\ request = [op |-> "toggle_sentence_starter", args |-> <<1, 1, 1, 2>>]
  /\ response.status = 200
  /\ Len(words) = 2
  /\ words[2].is_sentence_starter
  /\ words[1].is_sentence_starter
  /\ ActiveBlocks(1) = {1}
  /\ Cardinality(StoredSentences(1)) = 2
  /\ StoredSentences(1) = Materialized(1)

\* The words stored just before word i in the block of word i.
Previous(i) ==
  { j \in 1..Len(words) : /\ words[j].block_id = words[i].block_id
                          /\ words[j].word_number = words[i].word_number - 1 }

EndsSentence(t) == t # <<>> /\ t[Len(t)] \in {".", "!", "?"}

Capitalized(t) == t # <<>> /\ t[1] \in Upper /\ t \notin common_caps

WordsOfBlock(b) == {i \in 1..Len(words) : words[i].block_id = b}

\* The texts and the flags of the words stored for block b, by word number.
BlockTexts(b) ==
  [n \in 1..Cardinality(WordsOfBlock(b)) |->
     words[CHOOSE i \in WordsOfBlock(b) : words[i].word_number = n].text]

BlockFlags(b) ==
  [n \in 1..Cardinality(WordsOfBlock(b)) |->
     words[CHOOSE i \in WordsOfBlock(b) : words[i].word_number = n]
       .is_sentence_starter]

\* C27: classifying the same word sequence again yields the same flags, and
\* the first word of every block is a starter unless its text is in the
\* exception set, whatever the last word of any other block is.
C27_FirstWordStarterUnlessExcepted ==
  /\ \A b1, b2 \in 1..Len(blocks) :
       BlockTexts(b1) = BlockTexts(b2) => BlockFlags(b1) = BlockFlags(b2)
  /\ \A i \in 1..Len(words) :
       (words[i].word_number = 1 /\ words[i].text \notin common_caps)
         => words[i].is_sentence_starter

\* C27 (amended): the first word of every block is a starter exactly when its
\* first character is uppercase and its text is not in the exception set.
C27_FirstWordStarterIffCapitalized ==
  /\ \A b1, b2 \in 1..Len(blocks) :
       BlockTexts(b1) = BlockTexts(b2) => BlockFlags(b1) = BlockFlags(b2)
  /\ \A i \in 1..Len(words) :
       words[i].word_number = 1
         => (words[i].is_sentence_starter <=> Capitalized(words[i].text))

C27_Witness ==
  /\ sqlite_sequence = 2
  /\ BlockTexts(1) = << <<"a">> >>
  /\ BlockFlags(1) = <<FALSE>>
  /\ BlockTexts(2) = << <<"A">> >>
  /\ BlockFlags(2) = <<TRUE>>
  /\ blocks[2].page_id = blocks[1].page_id
  /\ Len(blocks) = 3
  /\ blocks[3].document_id = 2
  /\ BlockTexts(3) = << <<"A">> >>
  /\ BlockFlags(3) = <<TRUE>>

\* The rows that pages, blocks, words and sentences hold for document d.
RowsOf(d) ==
  [pages |-> {i \in 1..Len(pages) : pages[i].document_id = d},
   blocks |-> BlocksOf(d),
   words |-> WordsOf(d),
   sentences |-> StoredSentences(d)]

NoRows == [pages |-> {}, blocks |-> {}, words |-> {}, sentences |-> {}]

\* C28: after a successful delete of a document none of its pages, blocks,
\* words and sentences is stored and its file is gone; a delete of a document
\* that does not exist answers 404 and changes nothing.
C28_DeleteCascades ==
  [][\A d \in DeleteTargets :
       (request'.op = "delete_document" /\ request'.args[1] = d)
         => IF response'.status = 200
            THEN /\ d \in documents
                 /\ d \notin documents'
                 /\ d \notin uploads'
                 /\ RowsOf(d)' = NoRows
            ELSE /\ response'.status = 404
                 /\ d \notin documents
                 /\ UNCHANGED <<sqlite_sequence, uploads, documents, pages,
                                blocks, words, sentences>>]_vars

\* C29: when a document has just been uploaded it is stored, has at least one
\* page, each of its pages has at least one block, and each of those blocks
\* has at least one stored sentence.
C29_UploadedBlocksHaveSentences ==
  request.op = "upload_file"
    => LET d == request.args[1]
       IN /\ d \in documents
          /\ RowsOf(d).pages # {}
          /\ \A p \in RowsOf(d).pages :
               /\ \E b \in 1..Len(blocks) : blocks[b].page_id = p
               /\ \A b \in 1..Len(blocks) :
                    blocks[b].page_id = p
                      => \E s \in sentences : s.block_id = b

\* C30: a write in progress on one document never delays or prevents a write
\* on another document: no connection waits for, or is refused, the write lock
\* that a request for a different document holds.
C30_DifferentDocumentsDoNotBlock ==
  \A c, o \in Connections :
    (inflight[c].pc = "busy" /\ inflight[o].pc = "commit")
      => inflight[c].args[1] = inflight[o].args[1]

\* A sync_sentences call on document d has just returned True.
Synced(r, a, d) ==
  r.op = "sync_sentences" /\ r.args[1] = d /\ a.result = TRUE

\* C31: after a sync_sentences call that returns success the active starters
\* of the document are numbered by their rank in (activation order, word
\* number) order, every other word of the document has no number, and the
\* words of the other documents are as they were.
C31_SyncRenumbers ==
  [][\A d \in AllDocs :
       Synced(request', response', d)
         => /\ NumbersDense(d)'
            /\ \A w \in WordsOf(d) :
                 (~ words'[w].is_sentence_starter \/ ~ IsActive(w))
                   => words'[w].sentence_number = NULL
            /\ \A w \in 1..Len(words) :
                 words[w].document_id # d => words'[w] = words[w]]_vars

C31_Witness ==
  /\ Synced(request, response, 1)
  /\ Len(words) = 3
  /\ blocks[2].user_order = 1
  /\ blocks[1].user_order = 2
  /\ words[2].is_sentence_starter
  /\ words[2].sentence_number = 1
  /\ words[1].is_sentence_starter
  /\ words[1].sentence_number = 2
  /\ words[3].sentence_number = 1

\* The n-th position of the stream of d at which a sentence ends (0 for n = 0).
NthEnd(d, n) ==
  IF n = 0 THEN 0
  ELSE CHOOSE e \in Ends(d) : Cardinality({f \in Ends(d) : f <= e}) = n

\* The texts of the n-th maximal run of the stream of d: the words after the
\* (n-1)-th end up to the n-th end.
Run(d, n) ==
  [k \in 1..(NthEnd(d, n) - NthEnd(d, n - 1)) |->
     words[Stream(d)[NthEnd(d, n - 1) + k]].text]

\* C32: after a successful rebuild the sentences in sentence-number order
\* partition the active word stream: the n-th sentence is the single-space
\* join of the n-th maximal run of consecutive stream words with a starter at
\* most at its first position, so every active word is in exactly one
\* sentence, in stream order.
C32_SentencesPartitionStream ==
  \A d \in AllDocs :
    Synced(request, response, d)
      => /\ Cardinality(StoredSentences(d)) = Cardinality(Ends(d))
         /\ \A n \in 1..Cardinality(Ends(d)) :
              /\ \E s \in StoredSentences(d) :
                   s.sentence_number = n /\ s.text = join(Run(d, n))
              /\ \A k \in 2..Len(Run(d, n)) :
                   ~ words[Stream(d)[NthEnd(d, n - 1) + k]].is_sentence_starter
              /\ n > 1 =>
                   words[Stream(d)[NthEnd(d, n - 1) + 1]].is_sentence_starter
         /\ NthEnd(d, Cardinality(Ends(d))) = Len(Stream(d))

\* C32 happens: with the block of page 2 first, the stream "c", "A", "b." is
\* stored as the sentences "c" and "A b.".
C32_Witness ==
  /\ Synced(request, response, 1)
  /\ blocks[2].user_order = 1 /\ blocks[1].user_order = 2
  /\ words[1].is_sentence_starter
  /\ ~ words[2].is_sentence_starter
  /\ ~ words[3].is_sentence_starter
  /\ {[n |-> s.sentence_number, t |-> s.text] : s \in StoredSentences(1)}
       = {[n |-> 1, t |-> <<"c">>], [n |-> 2, t |-> <<"A", " ", "b", ".">>]}

\* C33: after a successful rebuild the number of stored sentences is the
\* number of active starter words, plus one exactly when the first word of the
\* active stream is not a starter, and the sentence numbers are 1..M, each
\* used once.
C33_SentenceCount ==
  \A d \in AllDocs :
    Synced(request, response, d)
      => LET M == Cardinality(StoredSentences(d))
         IN /\ M = Cardinality(ActiveStarters(d))
                    + (IF words[Stream(d)[1]].is_sentence_starter
                       THEN 0 ELSE 1)
            /\ {s.sentence_number : s \in StoredSentences(d)} = 1..M

\* C33 happens: the stream "c", "A", "b." with the starters "A" and "b." is
\* stored as three sentences.
C33_Witness ==
  /\ Synced(request, response, 1)
  /\ blocks[2].user_order = 1 /\ blocks[1].user_order = 2
  /\ words[1].is_sentence_starter
  /\ words[2].is_sentence_starter
  /\ ~ words[3].is_sentence_starter
  /\ Cardinality(ActiveStarters(1)) = 2
  /\ Cardinality(StoredSentences(1)) = 3

\* C34: in every reachable state the sentence numbers of the stored sentences
\* of a document are pairwise distinct, also after add_custom_sentence.
C34_SentenceNumbersDistinct ==
  \A d \in AllDocs :
    \A s, t \in StoredSentences(d) :
      s.sentence_number = t.sentence_number => s = t

\* The words table after the UPDATE of a toggle request on word t of its
\* document (the table as it is when no word matches).
Flipped(t) ==
  LET found == find_word(words, t[1], t[2], t[3], t[4])
  IN IF found = {} THEN words
     ELSE flip_starter(words, CHOOSE w \in found : \A v \in found : w <= v)

\* C35: the three renumberings agree: when an active block of the document
\* has words, the numbering the reset endpoint computes inline, and the one
\* toggle_sentence_starter computes inline after its UPDATE, are the numbering
\* sync_sentences computes from the same blocks and flags, so the sync that
\* follows changes no sentence number.
C35_RenumberingsAgree ==
  \A d \in AllDocs :
    sync_rows(blocks, words, d) # <<>>
      => /\ reset_renumber(blocks, words, d)
              = renumber_words(blocks, reset_renumber(blocks, words, d), d)
         /\ \A t \in ToggleRequests :
              t[1] = d
                => toggle_renumber(blocks, Flipped(t), d)
                     = renumber_words(blocks,
                         toggle_renumber(blocks, Flipped(t), d), d)

\* What a toggle request t commits on the tables (ws, ss) when its word
\* exists: the flip, the inline renumbering and the sync that follows.
AfterToggle(ws, ss, t) ==
  LET found == find_word(ws, t[1], t[2], t[3], t[4])
      id == CHOOSE w \in found : \A v \in found : w <= v
  IN sync_sentences(blocks, toggle_renumber(blocks, flip_starter(ws, id), t[1]),
                    ss, t[1])

\* The numbers and the stored sentences of d are those of a rebuild.
Rebuilt(d) ==
  /\ words = renumber_words(blocks, words, d)
  /\ StoredSentences(d) = Materialized(d)

\* C36: a toggle of an existing word, from a state that a completed rebuild
\* has produced, followed at once by a second toggle of the same word, gives
\* back the flags, the sentence numbers and the stored sentences (numbers,
\* texts, attribution) of the state before the first toggle.
C36_ToggleTwiceRestores ==
  [][\A t \in ToggleRequests :
       (/\ request' = [op |-> "toggle_sentence_starter", args |-> t]
        /\ response'.status = 200
        /\ Rebuilt(t[1]))
         => /\ words' = AfterToggle(words, sentences, t).words
            /\ sentences' = AfterToggle(words, sentences, t).sentences
            /\ AfterToggle(words', sentences', t).words = words
            /\ AfterToggle(words', sentences', t).sentences = sentences]_vars

\* C36 happens: with block 1 active, "b." was toggled to starter and then
\* toggled again: it is a non-starter without a number as at ingestion, and
\* the one sentence "A b." is stored.
C36_Witness ==
  /\ request = [op |-> "toggle_sentence_starter", args |-> <<1, 1, 1, 2>>]
  /\ response.status = 200
  /\ blocks[1].user_order = 1 /\ blocks[2].user_order = NULL
  /\ words[1].is_sentence_starter /\ words[1].sentence_number = 1
  /\ ~ words[2].is_sentence_starter /\ words[2].sentence_number = NULL
  /\ {s.text : s \in StoredSentences(1)} = {<<"A", " ", "b", ".">>}
  /\ Rebuilt(1)

\* The words a handled toggle request names that are in an inactive block.
ToggledInactive(r) == {w \in Toggled(r) : ~ IsActive(w)}

\* C37: a toggle of a word of an inactive block changes the flag of that word
\* and no other flag, leaves the word without a sentence number, and leaves
\* the sentence numbers of the active words and the stored sentences of the
\* document as a rebuild of the unchanged active blocks yields them.
C37_InactiveToggleFrame ==
  [][\A d \in AllDocs :
       (/\ request'.op = "toggle_sentence_starter"
        /\ request'.args[1] = d
        /\ ToggledInactive(request') # {})
         => LET id == CHOOSE w \in ToggledInactive(request') :
                        \A v \in Toggled(request') : w <= v
            IN /\ \A w \in 1..Len(words) :
                    words'[w].is_sentence_starter
                      = IF w = id THEN ~ words[w].is_sentence_starter
                        ELSE words[w].is_sentence_starter
               /\ words'[id].sentence_number = NULL
               /\ \A w \in WordsOf(d) :
                    IsActive(w)
                      => words'[w].sentence_number
                           = renumber_words(blocks, words, d)[w].sentence_number
               /\ StoredSentences(d)' = Materialized(d)]_vars

\* C38: sync_sentences and activate/deactivate change no word's starter flag;
\* sync_sentences, toggle and reset change no block's activation order; and a
\* request on one document changes no block, word or sentence of another
\* document.
C38_Frame ==
  [][/\ request'.op \in {"sync_sentences", "activate_block"}
          => /\ Len(words') = Len(words)
             /\ \A w \in 1..Len(words) :
                  words'[w].is_sentence_starter = words[w].is_sentence_starter
     /\ request'.op \in {"sync_sentences", "toggle_sentence_starter",
                         "reset_sentence_numbers_endpoint"}
          => blocks' = blocks
     /\ \A d \in AllDocs :
          (request'.op # "init_db" /\ request'.args[1] # d)
            => /\ \A b \in BlocksOf(d) : blocks'[b] = blocks[b]
               /\ \A w \in WordsOf(d) : words'[w] = words[w]
               /\ BlocksOf(d)' = BlocksOf(d)
               /\ WordsOf(d)' = WordsOf(d)
               /\ StoredSentences(d)' = StoredSentences(d)]_vars

\* C38 happens: document 2 has its block active, its word numbered and its
\* sentence stored while a toggle on document 1, whose two blocks are active
\* with two sentences stored, is answered.
C38_Witness ==
  /\ request = [op |-> "toggle_sentence_starter", args |-> <<1, 1, 2, 1>>]
  /\ response.status = 200
  /\ Len(blocks) = 3
  /\ blocks[1].user_order = 2 /\ blocks[2].user_order = 1
  /\ blocks[3].user_order = 1
  /\ words[3].sentence_number = 1
  /\ Cardinality(StoredSentences(2)) = 1
  /\ Cardinality(StoredSentences(1)) = 2

\* C39: over activate calls on inactive blocks and deactivate calls on active
\* blocks, the activation order of the active blocks is the order of their
\* most recent activation: an activation puts the block after every active
\* block and moves no other block, a deactivation keeps the order of the
\* remaining blocks among themselves, and the orders stay 1..K.
C39_OrderIsRecency ==
  [][\A d \in AllDocs :
       (request'.op = "activate_block" /\ request'.args[1] = d)
         => /\ Dense(d)'
            /\ IsActivate(request')
                 => /\ ActiveBlocks(d)' = ActiveBlocks(d) \cup Target(request')
                    /\ \A b \in ActiveBlocks(d) :
                         blocks'[b].user_order = blocks[b].user_order
                    /\ \A t \in Target(request'), b \in ActiveBlocks(d) :
                         blocks'[t].user_order > blocks'[b].user_order
            /\ IsDeactivate(request')
                 => /\ ActiveBlocks(d)' = ActiveBlocks(d) \ Target(request')
                    /\ \A b, c \in ActiveBlocks(d)' :
                         blocks[b].user_order < blocks[c].user_order
                           <=> blocks'[b].user_order < blocks'[c].user_order]_vars

\* C39 happens: block 1 of page 1, the first block of document 1, has just
\* been activated and is last, after block 1 of page 2 and block 2 of page 1.
C39_Witness ==
  /\ request = [op |-> "activate_block", args |-> <<1, 1, 1, 1>>]
  /\ Len(blocks) = 4
  /\ blocks[3].user_order = 1
  /\ blocks[2].user_order = 2
  /\ blocks[1].user_order = 3

====
